---- MODULE Spec2Model ----
(***************************************************************************)
(* Batch-job lifecycle of the NLQ-to-SPARQL evaluator.                     *)
(*                                                                         *)
(* One invocation of main() runs at a time (single writer).  An invocation *)
(* is either the batch submission loop (--batch) or the check mode         *)
(* (--check-batch: check_and_retrieve, then process_results_to_final_json).*)
(* Disk state: the job store file (a JSON document), the downloaded result *)
(* files, the canonical output files.  Providers are the environment: what *)
(* they answer (accept / raise, native status, result lines) is chosen     *)
(* nondeterministically.                                                   *)
(*                                                                         *)
(* Batch identifiers are issued by the providers and are unique; the k-th  *)
(* batch accepted is named k, so the insertion order of the job table      *)
(* (the order in which Python iterates it) is the numeric order.           *)
(***************************************************************************)
EXTENDS Integers, Sequences, FiniteSets, TLC

\* ------------------------------------------------------------------ bounds
MaxJobs == 2         \* batches the providers accept over the whole history
MaxLines == 3        \* lines of a result file in the normalizer specification

BatchIds == 1..MaxJobs

\* ------------------------------------------------------------ configuration
\* config['models']: key -> provider, in the order of the configuration file.
\* "local" has a provider with no batch branch; "ghost" is a key that
\* --model may name although the configuration has no such entry.
ModelKeys == <<"gpt", "qwen_compat", "gemini", "claude", "qwen", "local">>

ConfiguredModels == {ModelKeys[i] : i \in 1..Len(ModelKeys)}

ProviderOf(model_key) ==
    CASE model_key = "gpt"         -> "openai"
      [] model_key = "qwen_compat" -> "openai_compatible"
      [] model_key = "gemini"      -> "google"
      [] model_key = "claude"      -> "anthropic"
      [] model_key = "qwen"        -> "qwen"
      [] OTHER                     -> "ollama"

BatchProviders == {"openai", "openai_compatible", "google", "anthropic", "qwen"}

ModelOfProvider(provider) ==
    CHOOSE m \in ConfiguredModels : ProviderOf(m) = provider

\* evaluator.queries, loaded from config['input_data'].
Queries ==
    << [id |-> "1", query |-> "q1", ground_truth_sparql |-> "gt1"],
       [id |-> "2", query |-> "q2", ground_truth_sparql |-> "gt2"],
       [id |-> "3", query |-> "q3", ground_truth_sparql |-> "gt3"] >>

QueryIds == {Queries[i].id : i \in 1..Len(Queries)}

None == "None"

\* Evaluator.generate_prompt_payloads: one payload per query, in order.
generate_prompt_payloads ==
    [i \in 1..Len(Queries) |->
        [id            |-> Queries[i].id,
         system_prompt |-> <<"system_prompt", Queries[i].query>>,
         user_query    |-> Queries[i].query,
         ground_truth  |-> Queries[i].ground_truth_sparql]]

\* --------------------------------------------------------- request records
\* Request records in which the Gemini request carries no key.
RequestObj_Unkeyed(provider, p) ==
    IF provider = "google"
    THEN [custom_id |-> None, key |-> None,
          body |-> <<"System", p.system_prompt, "User", p.user_query>>]
    ELSE [custom_id |-> p.id, key |-> None,
          body |-> <<p.system_prompt, p.user_query>>]

\* The request record each _submit_* writes for one payload p.
RequestObj(provider, p) ==
    CASE provider \in {"openai", "openai_compatible"} ->
            [custom_id |-> p.id, key |-> None,
             body |-> <<p.system_prompt, p.user_query>>]
      [] provider = "google" ->
            [custom_id |-> None, key |-> p.id,
             body |-> <<"System", p.system_prompt, "User", p.user_query>>]
      [] provider = "anthropic" ->
            [custom_id |-> p.id, key |-> None,
             body |-> <<p.system_prompt, p.user_query>>]
      [] OTHER ->
            [custom_id |-> p.id, key |-> None,
             body |-> <<p.system_prompt, p.user_query>>]

Requests(provider, payloads) ==
    [i \in 1..Len(payloads) |-> RequestObj(provider, payloads[i])]

\* ------------------------------------------------------------ result lines
\* A provider answers a batch with lines that echo the correlation token in
\* the field the request carried it in ("custom_id", or "key" for Gemini).
\* cid ranges over two submitted ids and one id that was never submitted.
LineIds == {"1", "2", "9"}

\* Shape of a line's body relative to the owning provider's expected path:
\*   "text"    the expected path exists and ends in a string
\*   "missing" a key of the path is missing (KeyError / TypeError)
\*   "empty"   the list on the path is empty (IndexError)
\*   "null"    the path exists and ends in null
Bodies == {"text", "missing", "empty", "null"}

\* The markdown code fence (three backquotes), as one token.
Fence == "FENCE"

\* The text a provider generates: prose, then a fenced sparql block.
GeneratedText == <<"Here", Fence, "sparql", " ", "SELECT", " ", Fence>>

ResultLine(provider, cid, body) ==
    IF provider = "google"
    THEN [custom_id |-> None, key |-> cid, body |-> body]
    ELSE [custom_id |-> cid, key |-> None, body |-> body]

ProviderLines(provider) ==
    {ResultLine(provider, cid, body) : cid \in LineIds, body \in Bodies}

SeqsUpTo(S, n) == UNION {[1..k -> S] : k \in 0..n}

Blobs(provider, n) == SeqsUpTo(ProviderLines(provider), n)

\* --------------------------------------------------------------- optionals
\* A file that may not exist: <<>> is no file, <<c>> a file with content c.
NoFile == <<>>
File(c) == <<c>>
Exists(f) == Len(f) = 1
Content(f) == f[1]

\* ------------------------------------------------------------ clean_sparql
\* Texts are sequences of tokens.  NullText is Python's None where a text was
\* expected; EmptyText is "".
NullText == <<None>>
EmptyText == <<>>
ExtractionError == <<"Error extracting content">>

IsSpace(tok) == tok = " "

RECURSIVE LStrip(_)
LStrip(t) == IF Len(t) > 0 /\ IsSpace(Head(t)) THEN LStrip(Tail(t)) ELSE t

RECURSIVE RStrip(_)
RStrip(t) ==
    IF Len(t) > 0 /\ IsSpace(t[Len(t)]) THEN RStrip(SubSeq(t, 1, Len(t) - 1)) ELSE t

Strip(t) == RStrip(LStrip(t))

\* re.findall(r"```sparql(.*?)```", ...): the (start, end) of the leftmost
\* non-greedy match, as positions of the opening and the closing fence.
SparqlBlocks(t) ==
    {<<i, j>> \in (1..Len(t)) \X (1..Len(t)) :
        /\ t[i] = Fence /\ i + 1 < j /\ t[i + 1] = "sparql" /\ t[j] = Fence
        /\ \A k \in (i + 2)..(j - 1) : t[k] /= Fence}

\* re.findall(r"```(.*?)```", ...)
GenericBlocks(t) ==
    {<<i, j>> \in (1..Len(t)) \X (1..Len(t)) :
        /\ t[i] = Fence /\ i < j /\ t[j] = Fence
        /\ \A k \in (i + 1)..(j - 1) : t[k] /= Fence}

Leftmost(blocks) == CHOOSE b \in blocks : \A c \in blocks : b[1] <= c[1]

\* Evaluator.clean_sparql.  re.findall raises TypeError on None.
clean_sparql_raises(raw_response) == raw_response = NullText

clean_sparql(raw_response) ==
    IF SparqlBlocks(raw_response) /= {}
    THEN LET b == Leftmost(SparqlBlocks(raw_response))
         IN  Strip(SubSeq(raw_response, b[1] + 2, b[2] - 1))
    ELSE IF GenericBlocks(raw_response) /= {}
    THEN LET b == Leftmost(GenericBlocks(raw_response))
         IN  Strip(SubSeq(raw_response, b[1] + 1, b[2] - 1))
    ELSE Strip(raw_response)

\* ------------------------------------------------------------- normalizer
\* The value at the end of the provider's nested path in a result line, or
\* the exception the walk raises.
WalkPath(obj) ==
    CASE obj.body = "text"    -> [raises |-> FALSE, value |-> GeneratedText]
      [] obj.body = "null"    -> [raises |-> FALSE, value |-> NullText]
      [] OTHER                -> [raises |-> TRUE,  value |-> EmptyText]

\* The try/except around each provider's path: any exception becomes the
\* sentinel.  A provider with no branch keeps response_text = "".
ExtractText(provider, obj) ==
    IF provider \in {"openai", "openai_compatible", "anthropic", "google"}
    THEN IF WalkPath(obj).raises THEN ExtractionError ELSE WalkPath(obj).value
    ELSE EmptyText

\* query_map = {q['id']: q for q in evaluator_instance.queries}; .get(id)
HasQuery(custom_id) == \E i \in 1..Len(Queries) : Queries[i].id = custom_id

query_map(custom_id) ==
    Queries[CHOOSE i \in 1..Len(Queries) :
                /\ Queries[i].id = custom_id
                /\ \A k \in (i + 1)..Len(Queries) : Queries[k].id /= custom_id]

\* The correlation id the normalizer reads from a line: obj.get('custom_id').
CustomIdOf(obj) == obj.custom_id

\* A record that names the provider where the model key belongs.
result_record_ProviderAsModel(job, obj, response_text) ==
    [id                  |-> CustomIdOf(obj),
     query               |-> query_map(CustomIdOf(obj)).query,
     model               |-> job.provider,
     generated_sparql    |-> clean_sparql(response_text),
     ground_truth_sparql |-> query_map(CustomIdOf(obj)).ground_truth_sparql,
     generated_count     |-> -1,
     ground_truth_count  |-> -1,
     is_match            |-> FALSE,
     execution_error     |-> "Execution Skipped",
     raw_llm_response    |-> response_text]

\* result_record = {...}: the dict literal built for each matched line.
result_record(job, obj, response_text) ==
    [id                  |-> CustomIdOf(obj),
     query               |-> query_map(CustomIdOf(obj)).query,
     model               |-> job.model_key,
     generated_sparql    |-> clean_sparql(response_text),
     ground_truth_sparql |-> query_map(CustomIdOf(obj)).ground_truth_sparql,
     generated_count     |-> -1,
     ground_truth_count  |-> -1,
     is_match            |-> FALSE,
     execution_error     |-> "Execution Skipped",
     raw_llm_response    |-> response_text]

\* The reader loop over the lines of one result file: the records appended,
\* and whether an exception left the loop (after n lines were consumed).
RECURSIVE ProcessLines(_, _, _)
ProcessLines(job, lines, acc) ==
    IF lines = <<>> THEN [raised |-> FALSE, records |-> acc]
    ELSE LET obj == Head(lines)
             response_text == ExtractText(job.provider, obj)
         IN  IF ~HasQuery(CustomIdOf(obj))
             THEN ProcessLines(job, Tail(lines), acc)
             ELSE IF clean_sparql_raises(response_text)
             THEN [raised |-> TRUE, records |-> acc]
             ELSE ProcessLines(job, Tail(lines),
                               Append(acc, result_record(job, obj, response_text)))

\* ------------------------------------------------------------------- state
VARIABLES
    jobs_file, \* the job store file (self.jobs_file): optional JSON document
    store,     \* the table the store file was last written from, batch id ->
               \* job record (empty while the file holds no complete document)
    results,   \* batch_results_<id>.jsonl on disk: batch id -> optional lines
    outputs,   \* results_summary_batch.json on disk: output dir -> optional records
    remote,    \* the provider's side of each issued batch: native state, result
    sent,      \* the request records each provider received, per batch
    issued,    \* number of batch identifiers the providers have issued
    pc,        \* where the running invocation of main() is ("idle": none runs)
    todo,      \* submit mode: models_to_run still to be submitted
    cur,       \* submit mode: the batch the provider just accepted, not yet recorded
    jobs,      \* check mode: the in-memory table (jobs = self.load_jobs())
    queue,     \* check mode: batch ids the running loop has still to visit
    polled,    \* history: ids polled by the current/last check pass
    raised,    \* history: ids whose poll or fetch raised in the current/last pass
    fetched,   \* history: ids the current/last pass made a result download for
    refetched, \* history: ids the current/last pass downloaded over an existing file
    attempted, \* history: models the current/last dispatch called submit_batch for
    accepted,  \* history: batch ids the providers issued to the current/last dispatch
    returned,  \* history: <<model, batch id>> the current/last dispatch got back
    run        \* history: mode, models_to_run and ending of the current/last invocation

vars == <<jobs_file, store, results, outputs, remote, sent, issued, pc, todo,
          cur, jobs, queue, polled, raised, fetched, refetched, attempted,
          accepted, returned, run>>

disk == <<jobs_file, store, results, outputs>>
history == <<polled, raised, fetched, refetched, attempted, accepted, returned, run>>

NoBatch == [model_key |-> "", batch_id |-> 0, output_dir |-> 0]
NoTable == <<>>

Issued == 1..issued

RECURSIVE SortedIds(_)
SortedIds(S) ==
    IF S = {} THEN <<>>
    ELSE LET m == CHOOSE x \in S : \A y \in S : x <= y
         IN  <<m>> \o SortedIds(S \ {m})

\* jobs.items(): a dict loaded from the file iterates in insertion order.
Items(table) == SortedIds(DOMAIN table)

\* ---------------------------------------------------------- job store file
\* The keys a job record may hold, in the order the code inserts them:
\* base_url and env_key by _submit_openai_compatible only, input_file by every
\* _submit_* but _submit_anthropic, result_file by a _check_*, processed by
\* the normalizer.  A key the dict does not hold is <<>> here (FALSE for
\* processed, which the code only ever sets to True).
RecordKeys == <<"provider", "model_key", "base_url", "env_key", "status",
                "timestamp", "output_dir", "input_file", "result_file",
                "processed">>

\* A dump that never writes the processed flag.
Present_FlagLost(job, key) ==
    CASE key \in {"base_url", "env_key", "input_file", "result_file"} ->
            job[key] /= <<>>
      [] key = "processed" -> FALSE
      [] OTHER -> TRUE

Present(job, key) ==
    CASE key \in {"base_url", "env_key", "input_file", "result_file"} ->
            job[key] /= <<>>
      [] key = "processed" -> job.processed
      [] OTHER -> TRUE

\* json.dump of one record: a member (name, value) for each key it holds.
RECURSIVE DumpMembers(_, _)
DumpMembers(job, keys) ==
    IF keys = <<>> THEN <<>>
    ELSE (IF Present(job, Head(keys))
          THEN <<[name |-> Head(keys), value |-> job[Head(keys)]]>>
          ELSE <<>>)
         \o DumpMembers(job, Tail(keys))

\* json.dump(jobs, f): the members of the top-level object, one per batch
\* id, in the order of the dict.
json_dump(table) ==
    LET ids == Items(table)
    IN  [i \in 1..Len(ids) |->
            [key |-> ids[i], value |-> DumpMembers(table[ids[i]], RecordKeys)]]

\* A record's dict with no key in it.
EmptyRecord ==
    [provider    |-> None,
     model_key   |-> None,
     base_url    |-> <<>>,
     env_key     |-> <<>>,
     status      |-> None,
     timestamp   |-> 0,
     output_dir  |-> 0,
     input_file  |-> <<>>,
     result_file |-> <<>>,
     processed   |-> FALSE]

\* json.load of one record: each member sets its key, a later member of the
\* same name replacing an earlier one.
RECURSIVE LoadMembers(_, _, _)
LoadMembers(members, i, job) ==
    IF i > Len(members) THEN job
    ELSE LoadMembers(members, i + 1,
                     [job EXCEPT ![members[i].name] = members[i].value])

LoadRecord(members) == LoadMembers(members, 1, EmptyRecord)

\* json.load(f) of a complete document: the dict of its members, a later
\* member of the same key replacing an earlier one.
RECURSIVE LoadTable(_, _, _)
LoadTable(doc, i, table) ==
    IF i > Len(doc) THEN table
    ELSE LoadTable(doc, i + 1,
                   (doc[i].key :> LoadRecord(doc[i].value)) @@ table)

json_load(doc) == LoadTable(doc, 1, NoTable)

\* The content of the store file: the members written so far, and whether
\* the document was written to its end.
Document(members, closed) == [members |-> members, closed |-> closed]

\* BatchManager.load_jobs: {} when there is no file; json.load raises on a
\* document that is not complete.
load_jobs_raises == Exists(jobs_file) /\ ~Content(jobs_file).closed

load_jobs ==
    IF Exists(jobs_file) THEN json_load(Content(jobs_file).members) ELSE NoTable

\* BatchManager.save_jobs: the file is opened for writing, which empties it,
\* and the whole table is dumped into it.
save_jobs(table) == File(Document(json_dump(table), TRUE))

\* The file a save leaves when the process dies inside it, after n members.
Truncated(table, n) == File(Document(SubSeq(json_dump(table), 1, n), FALSE))

\* ------------------------------------------------------------- submission
\* A record whose provider tag is that of the method it was copied from.
JobRecord_CopiedTag(provider, model_key, batch_id, output_dir) ==
    [provider    |-> "openai",
     model_key   |-> model_key,
     base_url    |-> IF provider = "openai_compatible" THEN <<"base_url">> ELSE <<>>,
     env_key     |-> IF provider = "openai_compatible" THEN <<"env_key">> ELSE <<>>,
     status      |-> "pending",
     timestamp   |-> batch_id,
     output_dir  |-> output_dir,
     input_file  |-> IF provider = "anthropic" THEN <<>>
                     ELSE <<output_dir, model_key>>,
     result_file |-> <<>>,
     processed   |-> FALSE]

\* The record each _submit_* stores under the new batch id ("4. Record Job").
\* _submit_anthropic writes no input file.
JobRecord(provider, model_key, batch_id, output_dir) ==
    [provider    |-> provider,
     model_key   |-> model_key,
     base_url    |-> IF provider = "openai_compatible" THEN <<"base_url">> ELSE <<>>,
     env_key     |-> IF provider = "openai_compatible" THEN <<"env_key">> ELSE <<>>,
     status      |-> "pending",
     timestamp   |-> batch_id,
     output_dir  |-> output_dir,
     input_file  |-> IF provider = "anthropic" THEN <<>>
                     ELSE <<output_dir, model_key>>,
     result_file |-> <<>>,
     processed   |-> FALSE]

\* BatchManager.setup_clients and the os.getenv of the other providers: the
\* environment of the running invocation lacks the credential of at most one
\* provider (run.nokey).  No client is built for a key that is absent, and
\* the constructor never fails.
HasCredential(provider) == provider /= run.nokey

\* BatchManager.submit_batch up to the provider's answer, given whether the
\* provider call goes through: "raise" (exception out of submit_batch),
\* "none" (no batch branch for the provider: prints and returns None) or
\* "accepted" (the provider created the batch and issued an identifier).
submit_batch(model_key, provider_ok) ==
    IF model_key \notin ConfiguredModels THEN "raise"
    ELSE IF ProviderOf(model_key) \in BatchProviders
    THEN IF provider_ok /\ HasCredential(ProviderOf(model_key))
         THEN "accepted" ELSE "raise"
    ELSE "none"

\* A loop without the try/except: the exception ends the dispatch.
AfterSubmitError_Abort(rest) == [pc |-> "idle", todo |-> <<>>, end |-> "submit_error"]

\* main(), the loop body of the batch submission mode: an exception of
\* submit_batch is caught and the loop goes on with the next model.
AfterSubmitError(rest) == [pc |-> "submit", todo |-> rest, end |-> "running"]

\* models_to_run: every key of config['models'], or [args.model]; of the
\* single-model runs, one configured key and one key the configuration lacks.
RunLists == {ModelKeys} \cup {<<m>> : m \in {"claude", "ghost"}}

\* main() --batch, in an environment that lacks the credential of nokey.
StartSubmitIn(nokey) ==
    /\ pc = "idle"
    /\ \E list \in RunLists :
        /\ todo' = list
        /\ run' = [mode |-> "submit", list |-> list, end |-> "running", at |-> "",
                   nokey |-> nokey]
    /\ pc' = "submit"
    /\ polled' = {} /\ raised' = {} /\ fetched' = {} /\ refetched' = {}
    /\ attempted' = {} /\ accepted' = {} /\ returned' = {}
    /\ UNCHANGED <<disk, remote, sent, issued, cur, jobs, queue>>

StartSubmit == StartSubmitIn("none")

StartSubmitNoKey == \E nokey \in BatchProviders : StartSubmitIn(nokey)

\* Evaluator.prepare_output_dir: the directory run_<now>_<model_key>, <now>
\* being the local time to the second; it is created unless it exists.  A
\* directory is named here by the batch first recorded in it: same_second is
\* 0 when no recorded batch of the model was submitted at the same second of
\* the clock, else that batch.
prepare_output_dir(model_key, same_second) ==
    IF same_second = 0 THEN issued + 1 ELSE store[same_second].output_dir

\* One iteration up to the provider's answer, the clock reading being that of
\* the recorded batch same_second, or of none.
SubmitModelAt(same_second) ==
    /\ pc = "submit" /\ todo /= <<>>
    /\ same_second /= 0 =>
          /\ same_second \in DOMAIN store
          /\ store[same_second].model_key = Head(todo)
    /\ LET model == Head(todo) IN
       \E provider_ok \in BOOLEAN :
        /\ provider_ok => issued < MaxJobs
        /\ attempted' = attempted \cup {model}
        /\ CASE submit_batch(model, provider_ok) = "accepted" ->
                 /\ issued' = issued + 1
                 /\ accepted' = accepted \cup {issued + 1}
                 /\ sent' = [sent EXCEPT ![issued + 1] =
                                Requests(ProviderOf(model), generate_prompt_payloads)]
                 /\ remote' = [remote EXCEPT ![issued + 1] =
                                [state |-> "running", blob |-> <<>>]]
                 /\ cur' = [model_key |-> model, batch_id |-> issued + 1,
                            output_dir |-> prepare_output_dir(model, same_second)]
                 /\ pc' = "record"
                 /\ UNCHANGED <<todo, run>>
            [] submit_batch(model, provider_ok) = "none" ->
                 /\ todo' = Tail(todo)
                 /\ UNCHANGED <<issued, accepted, sent, remote, cur, pc, run>>
            [] OTHER ->
                 LET next == AfterSubmitError(Tail(todo)) IN
                 /\ pc' = next.pc
                 /\ todo' = next.todo
                 /\ run' = [run EXCEPT !.end = next.end]
                 /\ UNCHANGED <<issued, accepted, sent, remote, cur>>
    /\ UNCHANGED <<disk, jobs, queue, polled, raised, fetched, refetched, returned>>

\* The clock has moved on by a second at least since any submission of the
\* same model.
SubmitModel == SubmitModelAt(0)

\* The clock reads the second at which an earlier batch of the same model
\* was submitted (a run within the same second, or local time set back).
SubmitModelSameSecond == \E same_second \in BatchIds : SubmitModelAt(same_second)

\* "Record Job": jobs = self.load_jobs(); jobs[batch_id] = {...};
\* self.save_jobs(jobs); return batch_id.
\* A submit that builds the record and never puts it into the saved table.
Recorded_Dropped(table, batch) == table

\* A submit that writes a table holding the new record alone.
Recorded_Alone(table, batch) ==
    batch.batch_id :> JobRecord(ProviderOf(batch.model_key), batch.model_key,
                                batch.batch_id, batch.output_dir)

Recorded(table, batch) ==
    table @@ (batch.batch_id :> JobRecord(ProviderOf(batch.model_key),
                                          batch.model_key, batch.batch_id,
                                          batch.output_dir))

\* An exception of load_jobs is one more exception of submit_batch for main().
RecordJob ==
    /\ pc = "record"
    /\ IF load_jobs_raises
       THEN LET next == AfterSubmitError(Tail(todo)) IN
            /\ pc' = next.pc
            /\ todo' = next.todo
            /\ run' = [run EXCEPT !.end = next.end]
            /\ UNCHANGED <<jobs_file, store, returned>>
       ELSE LET table == Recorded(load_jobs, cur) IN
            /\ jobs_file' = save_jobs(table)
            /\ store' = table
            /\ returned' = returned \cup {<<cur.model_key, cur.batch_id>>}
            /\ todo' = Tail(todo)
            /\ pc' = "submit"
            /\ UNCHANGED run
    /\ cur' = NoBatch
    /\ UNCHANGED <<results, outputs, remote, sent, issued, jobs, queue,
                   polled, raised, fetched, refetched, attempted, accepted>>

EndSubmit ==
    /\ pc = "submit" /\ todo = <<>>
    /\ pc' = "idle"
    /\ run' = [run EXCEPT !.end = "done"]
    /\ UNCHANGED <<disk, remote, sent, issued, todo, cur, jobs, queue,
                   polled, raised, fetched, refetched, attempted, accepted,
                   returned>>

\* ------------------------------------------------------------- environment
\* Blobs a provider may hold as the result of a batch in the lifecycle: one
\* line for a submitted id, with a text or a null at the end of the path (the
\* normalizer specification draws from every line and from longer files).
FetchLines(provider) ==
    {ResultLine(provider, "1", body) : body \in {"text", "null"}}

FetchBlobs(provider) == {<<line>> : line \in FetchLines(provider)}

\* What a poll may find: a running batch is still running or has finished
\* since the last poll (with a result, with no output, or as failed); a
\* finished batch never changes again, and its result is the same at every
\* download.
Observable(provider, rem) ==
    IF rem.state = "running"
    THEN {rem}
         \cup {[state |-> "succeeded", blob |-> blob] : blob \in FetchBlobs(provider)}
         \cup {[state |-> state, blob |-> <<>>] : state \in {"succeeded_no_output", "failed"}}
    ELSE {rem}

\* ------------------------------------------------------------------ polling
\* What the provider's API reports for a batch in each remote state.
NativeStatus(provider, state) ==
    CASE state = "running" ->
            (CASE provider = "anthropic" -> "in_progress"
               [] provider = "google"    -> "JOB_STATE_RUNNING"
               [] provider = "qwen"      -> "RUNNING"
               [] OTHER                  -> "in_progress")
      [] state = "failed" ->
            (CASE provider = "anthropic" -> "canceling"
               [] provider = "google"    -> "JOB_STATE_FAILED"
               [] provider = "qwen"      -> "FAILED"
               [] OTHER                  -> "failed")
      [] OTHER ->
            (CASE provider = "anthropic" -> "ended"
               [] provider = "google"    -> "JOB_STATE_SUCCEEDED"
               [] provider = "qwen"      -> "SUCCEEDED"
               [] OTHER                  -> "completed")

\* batch.output_file_id / batch.results_url / output.results_url /
\* batch_job.dest: present when the finished batch has an output.
HasOutput(rem) == rem.state = "succeeded"

\* What a _check_* did: the record it leaves, whether it made the download
\* call (fetch) and wrote the result file (wrote), whether an exception was
\* raised (exc) and left the method (propagates).
Unchanged(job) ==
    [job |-> job, fetch |-> FALSE, wrote |-> FALSE, exc |-> FALSE, propagates |-> FALSE]
Raises(job) ==
    [job |-> job, fetch |-> FALSE, wrote |-> FALSE, exc |-> TRUE, propagates |-> TRUE]
FetchRaises(job) ==
    [job |-> job, fetch |-> TRUE, wrote |-> FALSE, exc |-> TRUE, propagates |-> TRUE]

\* A download that marks the record completed and forgets the result path.
Downloaded_NoPath(batch_id, job) ==
    [job |-> [job EXCEPT !.status = "completed"],
     fetch |-> TRUE, wrote |-> TRUE, exc |-> FALSE, propagates |-> FALSE]

\* A download that also stamps the record anew.
Downloaded_Restamped(batch_id, job) ==
    [job |-> [job EXCEPT !.status = "completed",
                         !.result_file = <<job.output_dir, batch_id>>,
                         !.timestamp = 0],
     fetch |-> TRUE, wrote |-> TRUE, exc |-> FALSE, propagates |-> FALSE]

\* The tail of every _check_*: the file is written, then the record is set.
Downloaded(batch_id, job) ==
    [job |-> [job EXCEPT !.status = "completed",
                         !.result_file = <<job.output_dir, batch_id>>],
     fetch |-> TRUE, wrote |-> TRUE, exc |-> FALSE, propagates |-> FALSE]

\* net: "ok", "poll_raise" (the status call raises) or "fetch_raise" (the
\* download raises, when one is made).
_check_openai(batch_id, job, rem, net) ==
    IF net = "poll_raise" THEN Raises(job)
    ELSE IF NativeStatus("openai", rem.state) = "completed" /\ HasOutput(rem)
    THEN IF net = "fetch_raise" THEN FetchRaises(job) ELSE Downloaded(batch_id, job)
    ELSE Unchanged(job)

_check_openai_compatible(batch_id, job, rem, net) ==
    IF net = "poll_raise" THEN Raises(job)
    ELSE IF NativeStatus("openai_compatible", rem.state) = "completed" /\ HasOutput(rem)
    THEN IF net = "fetch_raise" THEN FetchRaises(job) ELSE Downloaded(batch_id, job)
    ELSE Unchanged(job)

\* A check that downloads as soon as the batch is no longer running.
_check_google_NotRunning(batch_id, job, rem, net) ==
    IF net = "poll_raise" THEN Raises(job)
    ELSE IF NativeStatus("google", rem.state) /= "JOB_STATE_RUNNING"
    THEN IF net = "fetch_raise" THEN FetchRaises(job)
         ELSE Downloaded(batch_id, job)
    ELSE Unchanged(job)

\* No test of the destination: batch_job.dest.file_name raises when the
\* finished batch has none.
_check_google(batch_id, job, rem, net) ==
    IF net = "poll_raise" THEN Raises(job)
    ELSE IF NativeStatus("google", rem.state) = "JOB_STATE_SUCCEEDED"
    THEN IF ~HasOutput(rem) THEN Raises(job)
         ELSE IF net = "fetch_raise" THEN FetchRaises(job)
         ELSE Downloaded(batch_id, job)
    ELSE Unchanged(job)

\* A check that takes every status but in_progress for the end of the batch.
_check_anthropic_NotInProgress(batch_id, job, rem, net) ==
    IF net = "poll_raise" THEN Raises(job)
    ELSE IF NativeStatus("anthropic", rem.state) /= "in_progress"
    THEN Downloaded(batch_id, job)
    ELSE Unchanged(job)

_check_anthropic(batch_id, job, rem, net) ==
    IF net = "poll_raise" THEN Raises(job)
    ELSE IF NativeStatus("anthropic", rem.state) = "ended"
    THEN IF HasOutput(rem)
         THEN IF net = "fetch_raise" THEN FetchRaises(job)
              ELSE Downloaded(batch_id, job)
         ELSE Unchanged(job)
    ELSE Unchanged(job)

\* A variant that marks the record completed before the download is made.
_check_qwen_EagerStatus(batch_id, job, rem, net) ==
    LET Caught(fetch) == [job |-> job, fetch |-> fetch, wrote |-> FALSE,
                          exc |-> TRUE, propagates |-> FALSE]
    IN  IF net = "poll_raise" THEN Caught(FALSE)
        ELSE IF net = "denied" THEN Unchanged(job)
        ELSE IF NativeStatus("qwen", rem.state) = "SUCCEEDED"
        THEN IF HasOutput(rem)
             THEN IF net = "fetch_raise"
                  THEN [Caught(TRUE) EXCEPT !.job = [job EXCEPT !.status = "completed"]]
                  ELSE Downloaded(batch_id, job)
             ELSE Unchanged(job)
        ELSE Unchanged(job)

\* The whole body is inside try/except Exception: an exception is printed
\* and the record is left as it was.  Without DASHSCOPE_API_KEY the request
\* is sent with "Bearer None" and the answer holds no task status ("denied").
_check_qwen(batch_id, job, rem, net) ==
    LET Caught(fetch) == [job |-> job, fetch |-> fetch, wrote |-> FALSE,
                          exc |-> TRUE, propagates |-> FALSE]
    IN  IF net = "poll_raise" THEN Caught(FALSE)
        ELSE IF net = "denied" THEN Unchanged(job)
        ELSE IF NativeStatus("qwen", rem.state) = "SUCCEEDED"
        THEN IF HasOutput(rem)
             THEN IF net = "fetch_raise" THEN Caught(TRUE)
                  ELSE Downloaded(batch_id, job)
             ELSE Unchanged(job)
        ELSE Unchanged(job)

\* A dispatch with a final else that raises on a provider it does not know.
CheckDispatch_Strict(batch_id, job, rem, net) ==
    CASE job.provider = "openai"            -> _check_openai(batch_id, job, rem, net)
      [] job.provider = "anthropic"         -> _check_anthropic(batch_id, job, rem, net)
      [] job.provider = "google"            -> _check_google(batch_id, job, rem, net)
      [] job.provider = "openai_compatible" -> _check_openai_compatible(batch_id, job, rem, net)
      [] job.provider = "qwen"              -> _check_qwen(batch_id, job, rem, net)
      [] OTHER                              -> Raises(job)

\* The provider dispatch of check_and_retrieve's loop body.
CheckDispatch(batch_id, job, rem, net) ==
    CASE job.provider = "openai"            -> _check_openai(batch_id, job, rem, net)
      [] job.provider = "anthropic"         -> _check_anthropic(batch_id, job, rem, net)
      [] job.provider = "google"            -> _check_google(batch_id, job, rem, net)
      [] job.provider = "openai_compatible" -> _check_openai_compatible(batch_id, job, rem, net)
      [] job.provider = "qwen"              -> _check_qwen(batch_id, job, rem, net)
      [] OTHER                              -> Unchanged(job)

Nets == {"ok", "poll_raise", "fetch_raise"}

\* With the provider's credential absent, self.<provider>_client does not
\* exist (AttributeError) and openai.OpenAI(api_key=None) raises: the status
\* call of every provider but qwen raises.
NetsOf(provider) ==
    IF HasCredential(provider) THEN Nets
    ELSE IF provider = "qwen" THEN {"denied"}
    ELSE {"poll_raise"}

\* A download that opens the result file for appending.
write_result_Append(old, content) ==
    IF Exists(old) THEN File(Content(old) \o content) ELSE File(content)

\* open(output_path, "w") / "wb" / jsonlines.open(mode='w'): the download
\* replaces whatever the result file held.
write_result(old, content) == File(content)

\* main(), check mode: bm.check_and_retrieve() begins with jobs = load_jobs().
\* An exception of load_jobs leaves check_and_retrieve and main().
StartCheckIn(nokey) ==
    /\ pc = "idle"
    /\ IF load_jobs_raises
       THEN /\ run' = [mode |-> "check", list |-> <<>>, end |-> "store_error",
                       at |-> "", nokey |-> nokey]
            /\ UNCHANGED <<pc, jobs, queue>>
       ELSE LET table == load_jobs IN
            /\ pc' = "check"
            /\ jobs' = table
            /\ queue' = Items(table)
            /\ run' = [mode |-> "check", list |-> <<>>, end |-> "running",
                       at |-> "", nokey |-> nokey]
    /\ polled' = {} /\ raised' = {} /\ fetched' = {} /\ refetched' = {}
    /\ attempted' = {} /\ accepted' = {} /\ returned' = {}
    /\ UNCHANGED <<disk, remote, sent, issued, todo, cur>>

StartCheck == StartCheckIn("none")

StartCheckNoKey == \E nokey \in BatchProviders : StartCheckIn(nokey)

\* One iteration of "for batch_id, job in jobs.items()".  An exception that
\* leaves a _check_* leaves check_and_retrieve and main(): the invocation
\* ends there, and the in-memory table is gone.
CheckJob ==
    /\ pc = "check" /\ queue /= <<>>
    /\ LET batch_id == Head(queue)
           job == jobs[batch_id]
       IN  IF job.status = "completed"
           THEN /\ queue' = Tail(queue)
                /\ UNCHANGED <<results, remote, jobs, pc, polled, raised, fetched,
                               refetched, run>>
           ELSE \E net \in NetsOf(job.provider),
                   rem \in Observable(job.provider, remote[batch_id]) :
                LET r == CheckDispatch(batch_id, job, rem, net) IN
                /\ remote' = IF net \in {"poll_raise", "denied"} THEN remote
                             ELSE [remote EXCEPT ![batch_id] = rem]
                /\ polled' = IF job.provider \in BatchProviders
                             THEN polled \cup {batch_id} ELSE polled
                /\ raised' = IF r.exc THEN raised \cup {batch_id} ELSE raised
                /\ fetched' = IF r.fetch THEN fetched \cup {batch_id} ELSE fetched
                /\ refetched' = IF r.wrote /\ Exists(results[batch_id])
                                THEN refetched \cup {batch_id} ELSE refetched
                /\ results' = IF r.wrote
                              THEN [results EXCEPT ![batch_id] =
                                        write_result(results[batch_id], rem.blob)]
                              ELSE results
                /\ IF r.propagates
                   THEN /\ pc' = "idle"
                        /\ jobs' = NoTable
                        /\ queue' = <<>>
                        /\ run' = [run EXCEPT !.end = "poll_error"]
                   ELSE /\ jobs' = [jobs EXCEPT ![batch_id] = r.job]
                        /\ queue' = Tail(queue)
                        /\ UNCHANGED <<pc, run>>
    /\ UNCHANGED <<jobs_file, store, outputs, sent, issued, todo, cur, attempted,
                   accepted, returned>>

\* self.save_jobs(jobs) at the end of check_and_retrieve, then main() calls
\* process_results_to_final_json, which begins with jobs = self.load_jobs().
CheckSave ==
    /\ pc = "check" /\ queue = <<>>
    /\ LET file == save_jobs(jobs) IN
          /\ jobs_file' = file
          /\ jobs' = json_load(Content(file).members)
    /\ store' = jobs
    /\ queue' = Items(jobs)
    /\ pc' = "process"
    /\ UNCHANGED <<results, outputs, remote, sent, issued, todo, cur, history>>

\* ------------------------------------------------------------ normalization
\* A normalizer that records "processed" as a fourth status value.
MarkProcessed_AsStatus(job) == [job EXCEPT !.processed = TRUE, !.status = "processed"]

\* job['processed'] = True
MarkProcessed(job) == [job EXCEPT !.processed = TRUE]

\* A normalizer that marks a job processed when its result file is missing.
ProcJob_MarkMissing ==
    /\ pc = "process" /\ queue /= <<>>
    /\ LET batch_id == Head(queue)
           job == jobs[batch_id]
       IN  IF job.status = "completed" /\ ~job.processed
           THEN IF job.result_file = <<>> \/ ~Exists(results[job.result_file[2]])
                THEN /\ queue' = Tail(queue)
                     /\ jobs' = [jobs EXCEPT ![batch_id] = MarkProcessed(job)]
                     /\ UNCHANGED <<outputs, pc, run>>
                ELSE LET r == ProcessLines(job, Content(results[job.result_file[2]]), <<>>)
                     IN  IF r.raised
                         THEN /\ pc' = "idle"
                              /\ jobs' = NoTable
                              /\ queue' = <<>>
                              /\ run' = [run EXCEPT !.end = "normalize_error"]
                              /\ UNCHANGED outputs
                         ELSE /\ outputs' = [outputs EXCEPT ![job.output_dir] = File(r.records)]
                              /\ jobs' = [jobs EXCEPT ![batch_id] = MarkProcessed(job)]
                              /\ queue' = Tail(queue)
                              /\ UNCHANGED <<pc, run>>
           ELSE /\ queue' = Tail(queue)
                /\ UNCHANGED <<outputs, jobs, pc, run>>
    /\ UNCHANGED <<jobs_file, store, results, remote, sent, issued, todo, cur,
                   polled, raised, fetched, refetched, attempted, accepted,
                   returned>>

\* One iteration of the loop of process_results_to_final_json over
\* jobs.items().  An exception inside the reader loop (clean_sparql on None)
\* leaves the function and main().
ProcJob ==
    /\ pc = "process" /\ queue /= <<>>
    /\ LET batch_id == Head(queue)
           job == jobs[batch_id]
       IN  IF job.status = "completed" /\ ~job.processed
           THEN IF job.result_file = <<>> \/ ~Exists(results[job.result_file[2]])
                THEN /\ queue' = Tail(queue)
                     /\ UNCHANGED <<outputs, jobs, pc, run>>
                ELSE LET r == ProcessLines(job, Content(results[job.result_file[2]]), <<>>)
                     IN  IF r.raised
                         THEN /\ pc' = "idle"
                              /\ jobs' = NoTable
                              /\ queue' = <<>>
                              /\ run' = [run EXCEPT !.end = "normalize_error"]
                              /\ UNCHANGED outputs
                         ELSE /\ outputs' = [outputs EXCEPT ![job.output_dir] = File(r.records)]
                              /\ jobs' = [jobs EXCEPT ![batch_id] = MarkProcessed(job)]
                              /\ queue' = Tail(queue)
                              /\ UNCHANGED <<pc, run>>
           ELSE /\ queue' = Tail(queue)
                /\ UNCHANGED <<outputs, jobs, pc, run>>
    /\ UNCHANGED <<jobs_file, store, results, remote, sent, issued, todo, cur,
                   polled, raised, fetched, refetched, attempted, accepted,
                   returned>>

\* self.save_jobs(jobs) at the end of process_results_to_final_json; main()
\* returns.
ProcSave ==
    /\ pc = "process" /\ queue = <<>>
    /\ jobs_file' = save_jobs(jobs)
    /\ store' = jobs
    /\ jobs' = NoTable
    /\ pc' = "idle"
    /\ run' = [run EXCEPT !.end = "done"]
    /\ UNCHANGED <<results, outputs, remote, sent, issued, todo, cur, queue,
                   polled, raised, fetched, refetched, attempted, accepted,
                   returned>>

\* ------------------------------------------------------------ interruption
\* A kill that is handled by saving the table held in memory.
Interrupt_Flush ==
    /\ pc /= "idle"
    /\ pc' = "idle"
    /\ IF pc = "check"
       THEN jobs_file' = save_jobs(jobs) /\ store' = jobs
       ELSE UNCHANGED <<jobs_file, store>>
    /\ todo' = <<>> /\ cur' = NoBatch /\ jobs' = NoTable /\ queue' = <<>>
    /\ run' = [run EXCEPT !.end = "killed", !.at = pc]
    /\ UNCHANGED <<results, outputs, remote, sent, issued, polled, raised, fetched,
                   refetched, attempted, accepted, returned>>

\* The process is killed between two file operations: whatever is in memory
\* is lost, the disk stays.
Interrupt ==
    /\ pc /= "idle"
    /\ pc' = "idle"
    /\ todo' = <<>> /\ cur' = NoBatch /\ jobs' = NoTable /\ queue' = <<>>
    /\ run' = [run EXCEPT !.end = "killed", !.at = pc]
    /\ UNCHANGED <<disk, remote, sent, issued, polled, raised, fetched, refetched,
                   attempted, accepted, returned>>

\* The table a save_jobs call of the running invocation is about to write:
\* the record step of a submission, or the final save of either loop.
Saving ==
    \/ pc = "record" /\ ~load_jobs_raises
    \/ pc \in {"check", "process"} /\ queue = <<>>

SavedTable == IF pc = "record" THEN Recorded(load_jobs, cur) ELSE jobs

\* The process is killed inside save_jobs: open(self.jobs_file, 'w') has
\* emptied the file, and json.dump has written the first n members of the
\* document (all of them at most, the end of the document not yet).
InterruptSave ==
    /\ Saving
    /\ \E n \in 0..Len(json_dump(SavedTable)) :
          jobs_file' = Truncated(SavedTable, n)
    /\ store' = NoTable
    /\ pc' = "idle"
    /\ todo' = <<>> /\ cur' = NoBatch /\ jobs' = NoTable /\ queue' = <<>>
    /\ run' = [run EXCEPT !.end = "killed", !.at = "save"]
    /\ UNCHANGED <<results, outputs, remote, sent, issued, polled, raised, fetched,
                   refetched, attempted, accepted, returned>>

\* ---------------------------------------------------------- specifications
Init ==
    /\ jobs_file = NoFile
    /\ store = NoTable
    /\ results = [b \in BatchIds |-> NoFile]
    /\ outputs = [b \in BatchIds |-> NoFile]
    /\ remote = [b \in BatchIds |-> [state |-> "none", blob |-> <<>>]]
    /\ sent = [b \in BatchIds |-> <<>>]
    /\ issued = 0
    /\ pc = "idle"
    /\ todo = <<>> /\ cur = NoBatch /\ jobs = NoTable /\ queue = <<>>
    /\ polled = {} /\ raised = {} /\ fetched = {} /\ refetched = {}
    /\ attempted = {} /\ accepted = {} /\ returned = {}
    /\ run = [mode |-> "none", list |-> <<>>, end |-> "done", at |-> "",
              nokey |-> "none"]

Next ==
    \/ StartSubmit \/ SubmitModel \/ RecordJob \/ EndSubmit
    \/ StartCheck \/ CheckJob \/ CheckSave \/ ProcJob \/ ProcSave

Spec == Init /\ [][Next]_vars

\* The same, with the process killed at any step.
NextInt == Next \/ Interrupt

SpecInt == Init /\ [][NextInt]_vars

\* The same, with the process also killed inside a save of the store.
NextStore == NextInt \/ InterruptSave

SpecStore == Init /\ [][NextStore]_vars

\* The lifecycle in environments that may lack one provider's credential.
NextCred == Next \/ StartSubmitNoKey \/ StartCheckNoKey

SpecCred == Init /\ [][NextCred]_vars

\* The lifecycle with a clock that may read the same second twice.
NextClock == NextInt \/ SubmitModelSameSecond

SpecClock == Init /\ [][NextClock]_vars

\* The normalizer on its inputs: the store holds one completed, unprocessed
\* job of any provider whose downloaded result file is any sequence of at
\* most MaxLines lines; check mode is then run, again and again.
CompletedJob(provider, batch_id) ==
    [JobRecord(provider, ModelOfProvider(provider), batch_id, batch_id)
        EXCEPT !.status = "completed", !.result_file = <<batch_id, batch_id>>]

InitNorm ==
    \E provider \in BatchProviders : \E blob \in Blobs(provider, MaxLines) :
        /\ jobs_file = save_jobs(1 :> CompletedJob(provider, 1))
        /\ store = (1 :> CompletedJob(provider, 1))
        /\ results = [b \in BatchIds |-> IF b = 1 THEN File(blob) ELSE NoFile]
        /\ outputs = [b \in BatchIds |-> NoFile]
        /\ remote = [b \in BatchIds |->
                        IF b = 1 THEN [state |-> "succeeded", blob |-> blob]
                        ELSE [state |-> "none", blob |-> <<>>]]
        /\ sent = [b \in BatchIds |->
                        IF b = 1 THEN Requests(provider, generate_prompt_payloads)
                        ELSE <<>>]
        /\ issued = 1
        /\ pc = "idle"
        /\ todo = <<>> /\ cur = NoBatch /\ jobs = NoTable /\ queue = <<>>
        /\ polled = {} /\ raised = {} /\ fetched = {} /\ refetched = {}
        /\ attempted = {} /\ accepted = {} /\ returned = {}
        /\ run = [mode |-> "none", list |-> <<>>, end |-> "done", at |-> "",
                  nokey |-> "none"]

NextNorm == StartCheck \/ CheckJob \/ CheckSave \/ ProcJob \/ ProcSave

SpecNorm == InitNorm /\ [][NextNorm]_vars

\* Retries: the store holds MaxJobs pending jobs of any providers, whose
\* batches have all finished at the provider with a result; check mode is
\* then invoked again and again, every invocation running until it ends.
InitRetry ==
    \E providers \in [BatchIds -> BatchProviders] :
    \E blobs \in [BatchIds -> UNION {FetchBlobs(p) : p \in BatchProviders}] :
        /\ \A b \in BatchIds : blobs[b] \in FetchBlobs(providers[b])
        /\ store = [b \in BatchIds |->
                        JobRecord(providers[b], ModelOfProvider(providers[b]), b, b)]
        /\ jobs_file = save_jobs(store)
        /\ results = [b \in BatchIds |-> NoFile]
        /\ outputs = [b \in BatchIds |-> NoFile]
        /\ remote = [b \in BatchIds |-> [state |-> "succeeded", blob |-> blobs[b]]]
        /\ sent = [b \in BatchIds |->
                        Requests(providers[b], generate_prompt_payloads)]
        /\ issued = MaxJobs
        /\ pc = "idle"
        /\ todo = <<>> /\ cur = NoBatch /\ jobs = NoTable /\ queue = <<>>
        /\ polled = {} /\ raised = {} /\ fetched = {} /\ refetched = {}
        /\ attempted = {} /\ accepted = {} /\ returned = {}
        /\ run = [mode |-> "none", list |-> <<>>, end |-> "done", at |-> "",
                  nokey |-> "none"]

SpecRetry == InitRetry /\ [][NextNorm]_vars /\ WF_vars(NextNorm)

\* The lifecycle on a store that holds a record whose provider tag no branch
\* of check_and_retrieve handles (written by hand or by another version).
InitForeign ==
    /\ store = (1 :> JobRecord("ollama", "local", 1, 1))
    /\ jobs_file = save_jobs(store)
    /\ results = [b \in BatchIds |-> NoFile]
    /\ outputs = [b \in BatchIds |-> NoFile]
    /\ remote = [b \in BatchIds |-> [state |-> "none", blob |-> <<>>]]
    /\ sent = [b \in BatchIds |-> <<>>]
    /\ issued = 1
    /\ pc = "idle"
    /\ todo = <<>> /\ cur = NoBatch /\ jobs = NoTable /\ queue = <<>>
    /\ polled = {} /\ raised = {} /\ fetched = {} /\ refetched = {}
    /\ attempted = {} /\ accepted = {} /\ returned = {}
    /\ run = [mode |-> "none", list |-> <<>>, end |-> "done", at |-> "",
              nokey |-> "none"]

SpecForeign == InitForeign /\ [][Next]_vars

\* The normalizer on jobs whose result file may be missing: the store holds
\* MaxJobs completed, unprocessed jobs of any providers; the record of each
\* has no result_file ("unset"), or names a file that is not on the disk
\* ("absent"), or names the downloaded file ("present").  Check mode is run
\* again and again, and a file that is absent may be put back in between.
InitMissing ==
    \E providers \in [BatchIds -> BatchProviders] :
    \E blobs \in [BatchIds -> UNION {FetchBlobs(p) : p \in BatchProviders}] :
    \E files \in [BatchIds -> {"unset", "absent", "present"}] :
        /\ \A b \in BatchIds : blobs[b] \in FetchBlobs(providers[b])
        /\ store = [b \in BatchIds |->
                        IF files[b] = "unset"
                        THEN [CompletedJob(providers[b], b) EXCEPT !.result_file = <<>>]
                        ELSE CompletedJob(providers[b], b)]
        /\ jobs_file = save_jobs(store)
        /\ results = [b \in BatchIds |->
                        IF files[b] = "present" THEN File(blobs[b]) ELSE NoFile]
        /\ outputs = [b \in BatchIds |-> NoFile]
        /\ remote = [b \in BatchIds |-> [state |-> "succeeded", blob |-> blobs[b]]]
        /\ sent = [b \in BatchIds |->
                        Requests(providers[b], generate_prompt_payloads)]
        /\ issued = MaxJobs
        /\ pc = "idle"
        /\ todo = <<>> /\ cur = NoBatch /\ jobs = NoTable /\ queue = <<>>
        /\ polled = {} /\ raised = {} /\ fetched = {} /\ refetched = {}
        /\ attempted = {} /\ accepted = {} /\ returned = {}
        /\ run = [mode |-> "none", list |-> <<>>, end |-> "done", at |-> "",
                  nokey |-> "none"]

\* Between two invocations, the result file a record names is put back.
RestoreResult ==
    /\ pc = "idle"
    /\ \E b \in DOMAIN store :
          /\ store[b].result_file /= <<>>
          /\ ~Exists(results[b])
          /\ results' = [results EXCEPT ![b] = File(remote[b].blob)]
    /\ UNCHANGED <<jobs_file, store, outputs, remote, sent, issued, pc, todo, cur,
                   jobs, queue, history>>

NextMissing == NextNorm \/ RestoreResult

SpecMissing == InitMissing /\ [][NextMissing]_vars

\* ==================================================================== claims
RecordWellFormed(job) ==
    /\ job.status \in {"pending", "completed"}
    /\ job.processed => job.status = "completed"
    /\ (job.result_file /= <<>>) <=> (job.status = "completed")

\* C1: across submit, check_and_retrieve and process_results_to_final_json, a
\* record of the store stays in the store and its status, if it changes at
\* all, changes from pending to completed; a completed record stays completed.
C1_StatusMonotonic ==
    [][\A b \in DOMAIN store :
          /\ b \in DOMAIN store'
          /\ store'[b].status /= store[b].status =>
                (store[b].status = "pending" /\ store'[b].status = "completed")]_vars

\* C1 witness: a record completed by an earlier pass is still completed after
\* a later dispatch has added a pending record behind it.
C1_Witness ==
    \E b, c \in DOMAIN store :
        /\ b < c
        /\ store[b].status = "completed" /\ store[b].processed
        /\ store[c].status = "pending"
        /\ run.mode = "submit" /\ run.end = "done"

\* C2: every record of the table, as persisted and as held in memory by a
\* running pass, has processed only if completed, and a result_file exactly
\* if completed.
C2_RecordInvariant ==
    /\ \A b \in DOMAIN store : RecordWellFormed(store[b])
    /\ \A b \in DOMAIN jobs : RecordWellFormed(jobs[b])

\* C2 witness: the store holds a pending record, and a processed one.
C2_Witness ==
    \E b, c \in DOMAIN store :
        /\ store[b].processed /\ store[b].result_file /= <<>>
        /\ store[c].status = "pending" /\ store[c].result_file = <<>>

SeqRange(seq) == {seq[i] : i \in 1..Len(seq)}

\* A check pass (check_and_retrieve) of the current/last invocation is over:
\* it reached its save, or an exception ended it.
PassOver == run.mode = "check" /\ pc /= "check"

\* C3: when the poll or fetch of a job raised in a pass, every job that was
\* pending in that pass has been polled by the time the pass is over.
C3_PollIsolation ==
    (PassOver /\ raised /= {}) =>
        \A b \in DOMAIN store : store[b].status = "pending" => b \in polled

\* C4: a pass never ends by a poll or fetch exception: it reaches its final
\* save, so every job it downloaded without an error is completed in the
\* store when the pass is over.
C4_PassCompletes ==
    PassOver =>
        /\ run.end /= "poll_error"
        /\ \A b \in polled \ raised :
              Exists(results[b]) => store[b].status = "completed"

C6_SubmissionIsolation ==
    run.mode = "submit" =>
        /\ run.end \in {"running", "done"}
        /\ attempted \cup SeqRange(todo) = SeqRange(run.list)
        /\ run.end = "done" =>
              /\ attempted = SeqRange(run.list)
              /\ \A b \in accepted :
                    /\ b \in DOMAIN store
                    /\ <<store[b].model_key, b>> \in returned

\* C6 witness: a dispatch over every configured model is done; the first
\* model's submission failed and a later model has its record.
C6_Witness ==
    /\ run.mode = "submit" /\ run.end = "done" /\ run.list = ModelKeys
    /\ "gpt" \in attempted
    /\ \A r \in returned : r[1] /= "gpt"
    /\ \E r \in returned : r[1] = "claude" /\ store[r[2]].model_key = "claude"

CorrelationId(line) == IF line.key /= None THEN line.key ELSE line.custom_id

\* The payload ids submitted for a batch: the tokens of its request records.
SubmittedIds(b) ==
    {CorrelationId(sent[b][i]) : i \in 1..Len(sent[b])}

ResultLines(b) == Content(results[b])

OutputOf(b) == outputs[store[b].output_dir]

\* The lines of the result file of batch b that belong to a submitted payload.
JoinedLines(b) ==
    LET Joined(line) == CorrelationId(line) \in SubmittedIds(b)
    IN  SelectSeq(ResultLines(b), Joined)

\* C8: once a job is processed, its output holds one record per result line
\* whose correlation id is the id of a submitted payload, in file order, and
\* none for any other line.
C8_JoinCorrect ==
    \A b \in DOMAIN store :
        store[b].processed =>
            /\ Exists(OutputOf(b))
            /\ Len(Content(OutputOf(b))) = Len(JoinedLines(b))
            /\ \A i \in 1..Len(JoinedLines(b)) :
                  i <= Len(Content(OutputOf(b))) =>
                      Content(OutputOf(b))[i].id = CorrelationId(JoinedLines(b)[i])

Normalizable(b) ==
    /\ store[b].status = "completed"
    /\ store[b].result_file /= <<>>
    /\ Exists(results[b])

InvocationOver == run.mode = "check" /\ pc = "idle"

\* C9: after any run of the normalizer, the first or a later one, every
\* completed job with a result file is processed and its output file holds
\* the normalization of that file, the same after every run.
C9_NormalizerIdempotent ==
    InvocationOver =>
        \A b \in DOMAIN store :
            Normalizable(b) =>
                /\ store[b].processed
                /\ Exists(OutputOf(b))
                /\ Content(OutputOf(b)) = ProcessLines(store[b], ResultLines(b), <<>>).records

\* The lines the normalizer matches to a query, in file order.
MatchedLines(b) ==
    LET Matched(line) == HasQuery(CustomIdOf(line))
    IN  SelectSeq(ResultLines(b), Matched)

\* C10: for the providers with an extraction branch, a line that matches a
\* payload and whose body has not the expected shape (missing key, empty
\* list, null text) gets the sentinel as its text; no exception ends the
\* normalizer, every matched line has its record, and the job is processed.
C10_ExtractionRobust ==
    InvocationOver =>
        /\ run.end /= "normalize_error"
        /\ \A b \in DOMAIN store :
              (Normalizable(b) /\ store[b].provider /= "qwen") =>
                  /\ store[b].processed
                  /\ Exists(OutputOf(b))
                  /\ Len(Content(OutputOf(b))) = Len(MatchedLines(b))
                  /\ \A i \in 1..Len(MatchedLines(b)) :
                        (i <= Len(Content(OutputOf(b)))
                            /\ MatchedLines(b)[i].body /= "text") =>
                          Content(OutputOf(b))[i].raw_llm_response = ExtractionError

\* C11: a save is atomic: whenever the store file changes, also when the
\* process dies inside save_jobs, the file afterwards holds a complete
\* document, and a load of it returns the old table or the table being saved.
C11_AtomicSave ==
    [][jobs_file' /= jobs_file =>
          /\ ~load_jobs_raises'
          /\ load_jobs' = load_jobs \/ load_jobs' = SavedTable]_vars

\* C12: the table a load reads from the store file is the table that was
\* saved, saving what a load returns leaves the file as it is, a table held
\* in memory by a pass is what a save and a load of it return, and with no
\* store file a load returns the empty table.
C12_StoreRoundTrip ==
    /\ ~Exists(jobs_file) => load_jobs = NoTable
    /\ Exists(jobs_file) =>
          /\ ~load_jobs_raises
          /\ load_jobs = store
          /\ save_jobs(load_jobs) = jobs_file
    /\ pc \in {"check", "process"} =>
          json_load(Content(save_jobs(jobs)).members) = jobs

\* C12 witness: the file holds a processed record and the record of an
\* openai_compatible job, which is still pending, and a load returns both.
C12_Witness ==
    /\ Exists(jobs_file)
    /\ \E b, c \in DOMAIN load_jobs :
          /\ load_jobs[b].processed /\ load_jobs[b].result_file /= <<>>
          /\ load_jobs[c].env_key /= <<>> /\ load_jobs[c].status = "pending"
          /\ load_jobs[c].result_file = <<>>

\* The native status value each _check_* takes for success.
SuccessStatus(provider) ==
    CASE provider = "anthropic" -> "ended"
      [] provider = "google"    -> "JOB_STATE_SUCCEEDED"
      [] provider = "qwen"      -> "SUCCEEDED"
      [] OTHER                  -> "completed"

\* The status the provider reports for batch b as last observed is not the
\* provider's success value.
NonSuccess(b) ==
    NativeStatus(store[b].provider, remote[b].state) /= SuccessStatus(store[b].provider)

\* C13: a poll that returns a native status other than the provider's
\* success value leaves the record as it was, downloads nothing and writes no
\* result file; a job whose batch is not in the success status is pending,
\* with no result_file, in the table of the pass and in the store.
C13_NonSuccessLeavesPending ==
    /\ [](\A b \in DOMAIN store :
            NonSuccess(b) =>
                /\ store[b].status = "pending" /\ store[b].result_file = <<>>
                /\ b \in DOMAIN jobs =>
                      jobs[b].status = "pending" /\ jobs[b].result_file = <<>>)
    /\ [][\A b \in polled' \ polled :
            (NonSuccess(b)' /\ pc' = "check") =>
                /\ jobs'[b] = jobs[b]
                /\ results'[b] = results[b]
                /\ b \notin fetched']_vars

\* C13 witness: a pass has saved and ended; one of the jobs it polled is in
\* a failed native status and another is still running, and both records are
\* pending with no result_file.
C13_Witness ==
    /\ run.mode = "check" /\ run.end = "done"
    /\ \E b, c \in polled \ raised :
          /\ remote[b].state = "failed" /\ remote[c].state = "running"
          /\ store[b].status = "pending" /\ store[b].result_file = <<>>
          /\ store[c].status = "pending" /\ store[c].result_file = <<>>

\* The poll of batch b in the current/last pass returned without an error
\* and reported the provider's success status.
ReportedSuccess(b) ==
    /\ b \in polled \ raised
    /\ ~NonSuccess(b)

\* C14: when a pass is over, every job whose poll in that pass reported the
\* provider's success status is completed in the store, with a result_file
\* that is the downloaded file.
C14_SuccessCompletes ==
    PassOver =>
        \A b \in DOMAIN store :
            ReportedSuccess(b) =>
                /\ store[b].status = "completed"
                /\ store[b].result_file = <<store[b].output_dir, b>>
                /\ Exists(results[b])

\* C15: a step at which load_jobs raises ends the invocation with the store
\* error, in the record step of a submission as at the start of a check; it
\* never goes on with the next model.
C15_StoreErrorFatal ==
    [][(load_jobs_raises /\ run'.end /= "killed"
            /\ (pc = "record" \/ (pc = "idle" /\ run'.mode = "check"))) =>
          (pc' = "idle" /\ run'.end = "store_error")]_vars

\* C16: whatever submit, check_and_retrieve and process_results_to_final_json
\* save, every batch id the persisted table held before is in it afterwards.
C16_NeverDeleted ==
    [][DOMAIN store \subseteq DOMAIN store']_vars

\* C16 witness: two dispatches and the check runs between and after them have
\* written the store; it holds both batches, the older one processed.
C16_Witness ==
    /\ run.mode = "check" /\ run.end = "done"
    /\ DOMAIN load_jobs = BatchIds
    /\ load_jobs[1].processed /\ ~load_jobs[MaxJobs].processed

Immutable(job) ==
    <<job.provider, job.model_key, job.base_url, job.env_key, job.timestamp,
      job.output_dir, job.input_file>>

\* The step changes, of the record of b in the table, at most the listed
\* keys, and none at all if the record is completed and frozen says so.
ChangesOnly(old, new, keys, frozen) ==
    /\ Immutable(new) = Immutable(old)
    /\ "status" \notin keys => new.status = old.status
    /\ "result_file" \notin keys => new.result_file = old.result_file
    /\ "processed" \notin keys => new.processed = old.processed
    /\ (frozen /\ old.status = "completed") => new = old

\* C17: check_and_retrieve changes only status and result_file, and only of
\* records that were pending; process_results_to_final_json changes only the
\* processed flag; a submission changes no existing record; provider,
\* model_key, timestamp, output_dir and input_file (and base_url, env_key)
\* never change.  This holds for the table in memory at every step of a loop
\* and for the store at every save.
C17_MutationOwnership ==
    /\ [][\A b \in DOMAIN store \cap DOMAIN store' :
            CASE pc = "check"   -> ChangesOnly(store[b], store'[b],
                                               {"status", "result_file"}, TRUE)
              [] pc = "process" -> ChangesOnly(store[b], store'[b], {"processed"}, FALSE)
              [] OTHER          -> store'[b] = store[b]]_vars
    /\ [][\A b \in DOMAIN jobs \cap DOMAIN jobs' :
            CASE pc = "check"   -> ChangesOnly(jobs[b], jobs'[b],
                                               {"status", "result_file"}, TRUE)
              [] pc = "process" -> ChangesOnly(jobs[b], jobs'[b], {"processed"}, FALSE)
              [] OTHER          -> jobs'[b] = jobs[b]]_vars

\* C17 witness: an openai_compatible job has gone through submission, a
\* download and the normalizer, and its record is the submitted one but for
\* status, result_file and processed.
C17_Witness ==
    \E b \in DOMAIN store :
        /\ store[b].provider = "openai_compatible"
        /\ store[b].processed
        /\ store[b] = [JobRecord("openai_compatible", "qwen_compat", b, b)
                          EXCEPT !.status = "completed",
                                 !.result_file = <<b, b>>,
                                 !.processed = TRUE]

\* C18: a download is made for a job only in the step that polls it, the poll
\* having returned the provider's success status, and only for a record that
\* is pending in the table of the pass and in the store; so every job a pass
\* downloaded for was polled in that pass and is in the success status.
C18_FetchAfterSuccess ==
    /\ [](fetched \subseteq polled)
    /\ [](\A b \in fetched : ~NonSuccess(b))
    /\ [][\A b \in fetched' \ fetched :
            /\ pc = "check" /\ queue /= <<>> /\ b = Head(queue)
            /\ b \in polled' \ polled
            /\ jobs[b].status = "pending" /\ store[b].status = "pending"
            /\ NativeStatus(jobs[b].provider, remote'[b].state)
                  = SuccessStatus(jobs[b].provider)]_vars

\* C18 witness: a pass has ended that downloaded for one job and polled
\* another, failed, job for which it made no download.
C18_Witness ==
    /\ run.mode = "check" /\ run.end = "done"
    /\ \E b \in fetched, c \in polled \ fetched :
          /\ store[b].status = "completed"
          /\ remote[c].state = "failed" /\ ~Exists(results[c])

\* C19: a download made over an existing result file of the same batch
\* leaves the file with the content it had, and the record it leaves is the
\* pending record completed with the same result path, as after one download.
C19_IdempotentDownload ==
    [][\A b \in refetched' \ refetched :
          /\ results'[b] = results[b]
          /\ jobs'[b] = [store[b] EXCEPT !.status = "completed",
                                         !.result_file = <<store[b].output_dir, b>>]
          /\ store[b].status = "pending"]_vars

\* C19 witness: a pass was killed after a download and before its save; a
\* later pass has downloaded the same batch again and saved the record.
C19_Witness ==
    /\ run.mode = "check" /\ run.end = "done"
    /\ \E b \in refetched :
          /\ store[b].status = "completed" /\ store[b].processed
          /\ Exists(results[b])

\* The jobs of the provider whose credential the invocation lacks.
KeylessJobs == {b \in DOMAIN store : store[b].provider = run.nokey}

\* C20: in an invocation that lacks one provider's credential, the error
\* arises only in the submission to that provider: a dispatch attempts every
\* model and ends normally; a check pass raises no error for that provider's
\* jobs and, no other job having raised, ends normally with every pending job
\* of the other providers polled.
C20_CredentialScoping ==
    run.nokey /= "none" =>
        /\ run.mode = "submit" =>
              /\ run.end \in {"running", "done"}
              /\ run.end = "done" => attempted = SeqRange(run.list)
        /\ run.mode = "check" =>
              /\ raised \cap KeylessJobs = {}
              /\ (PassOver /\ raised \subseteq KeylessJobs) =>
                    /\ run.end /= "poll_error"
                    /\ \A b \in DOMAIN store \ KeylessJobs :
                          store[b].status = "pending" => b \in polled

\* C21: with check mode invoked again and again, a pending job whose batch
\* has finished with a result and whose own poll and download, from some
\* point on, no longer raise is eventually completed and processed in the
\* store, whatever the polls of the other jobs of the table do.
C21_RetryLiveness ==
    \A b \in BatchIds :
        <>[](b \notin raised) => <>(store[b].status = "completed" /\ store[b].processed)

\* The table an uninterrupted pass over table saves: a pending record whose
\* poll returned without an error and found a finished batch with an output
\* is completed with its result path; every other record is as it was.
UninterruptedResult(table) ==
    [b \in DOMAIN table |->
        IF /\ table[b].status = "pending"
           /\ b \in polled \ raised
           /\ HasOutput(remote[b])
        THEN [table[b] EXCEPT !.status = "completed",
                              !.result_file = <<table[b].output_dir, b>>]
        ELSE table[b]]

\* C22: every step of a check pass before its final save, a kill of the
\* process included, leaves the store file and the persisted table as they
\* were before the pass; and the final save of any pass, also of one that
\* follows a killed pass and finds its downloads on disk, writes the table an
\* uninterrupted pass over the persisted table writes, each record it
\* completed having the provider's result as its result file.
C22_InterruptedPassResumable ==
    /\ [][(pc = "check" /\ pc' /= "process") =>
            (jobs_file' = jobs_file /\ store' = store)]_vars
    /\ [][(pc = "check" /\ pc' = "process") =>
            /\ store' = UninterruptedResult(store)
            /\ \A b \in DOMAIN store :
                  store'[b].status /= store[b].status =>
                      results[b] = File(remote[b].blob)]_vars

\* C22 witness: a pass was killed before its save, after it had downloaded
\* the result of one job and polled another; both records are still pending
\* in the store, and the downloaded file is on the disk.
C22_Witness ==
    /\ run.mode = "check" /\ run.end = "killed" /\ run.at = "check"
    /\ \E b \in fetched \ raised, c \in polled \ fetched :
          /\ Exists(results[b])
          /\ store[b].status = "pending" /\ store[b].result_file = <<>>
          /\ store[c].status = "pending"

\* C23: no record ever has a status other than pending and completed; a job
\* whose batch the provider reports as failed stays pending, with no
\* result_file, in the table of the pass and in the store, and has been
\* polled again by every pass by the time that pass is over.
C23_NoFailedState ==
    /\ \A b \in DOMAIN store : store[b].status \in {"pending", "completed"}
    /\ \A b \in DOMAIN jobs : jobs[b].status \in {"pending", "completed"}
    /\ \A b \in DOMAIN store :
          remote[b].state = "failed" =>
              /\ store[b].status = "pending" /\ store[b].result_file = <<>>
              /\ PassOver => b \in polled

\* C24: two distinct jobs never have the same output directory, hence never
\* the same canonical output file; and the output file of a completed job,
\* whenever it exists, holds the normalization of the job's result file, once
\* each record: after the run that set the processed flag, and after a run
\* that wrote the file and was killed or ended before its save, and after
\* any later run that wrote it again.
C24_OverwriteNotAppend ==
    /\ \A b, c \in DOMAIN store :
          b /= c => store[b].output_dir /= store[c].output_dir
    /\ \A b \in DOMAIN store :
          (store[b].status = "completed" /\ Exists(OutputOf(b))) =>
              Content(OutputOf(b)) =
                  ProcessLines(store[b], ResultLines(b), <<>>).records
    /\ \A b \in DOMAIN store : store[b].processed => Exists(OutputOf(b))

\* The records process_results_to_final_json selects.
Selected(job) == job.status = "completed" /\ ~job.processed

\* C25: an iteration of the normalizer's loop changes a record, and writes
\* an output file, only for the record it visits and only if that record is
\* completed and not processed; what it writes then is the normalization of
\* that record's result file, and the flag.  The record and the output file
\* of every pending and of every processed record are left as they were.
C25_NormalizerSelection ==
    [][(pc = "process" /\ queue /= <<>>) =>
          LET b == Head(queue) IN
          /\ \A c \in DOMAIN jobs :
                /\ (c /= b /\ pc' = "process") => jobs'[c] = jobs[c]
                /\ ~Selected(jobs[c]) =>
                      /\ pc' = "process" => jobs'[c] = jobs[c]
                      /\ outputs'[jobs[c].output_dir] = outputs[jobs[c].output_dir]
          /\ (pc' = "process" /\ jobs'[b] /= jobs[b]) =>
                /\ jobs'[b] = [jobs[b] EXCEPT !.processed = TRUE]
                /\ outputs'[jobs[b].output_dir] =
                      File(ProcessLines(jobs[b], ResultLines(b), <<>>).records)]_vars

\* C26: the requests a provider received for a batch are one per payload, in
\* payload order, the i-th carrying the id of the i-th payload as its
\* correlation id, in "key" for Gemini and in "custom_id" for every other
\* provider; so the set of correlation ids sent is the set of payload ids.
C26_RequestCorrelation ==
    \A b \in Issued :
        LET payloads == generate_prompt_payloads
            provider == IF b \in DOMAIN store THEN store[b].provider
                        ELSE ProviderOf(cur.model_key)
        IN  /\ Len(sent[b]) = Len(payloads)
            /\ \A i \in 1..Len(sent[b]) :
                  /\ i <= Len(payloads)
                  /\ CorrelationId(sent[b][i]) = payloads[i].id
                  /\ IF provider = "google"
                     THEN sent[b][i].key = payloads[i].id
                     ELSE sent[b][i].custom_id = payloads[i].id
            /\ SubmittedIds(b) = {payloads[i].id : i \in 1..Len(payloads)}

\* C26 witness: a dispatch has submitted a Gemini batch and an Anthropic
\* batch; both providers hold the three requests of the three payloads.
C26_Witness ==
    \E b, c \in DOMAIN store :
        /\ store[b].provider = "google" /\ store[c].provider = "anthropic"
        /\ Len(sent[b]) = Len(Queries) /\ Len(sent[c]) = Len(Queries)
        /\ sent[b][Len(Queries)].key = Queries[Len(Queries)].id
        /\ sent[c][Len(Queries)].custom_id = Queries[Len(Queries)].id

\* The batch identifiers the current/last dispatch got back from submit_batch.
ReturnedIds == {r[2] : r \in returned}

\* C27: through a dispatch, the keys the persisted table has gained are
\* exactly the batch identifiers the submissions returned, which are the
\* batches the providers accepted once the dispatch is done; the record of
\* each is pending, has no result_file and no processed flag, and has the
\* model_key it was submitted for and that model's provider; and no step of
\* the dispatch changes or removes a record the table held before it.
C27_DispatchEffect ==
    /\ [](run.mode = "submit" =>
            /\ ReturnedIds = accepted \cap DOMAIN store
            /\ run.end = "done" => ReturnedIds = accepted
            /\ Cardinality(ReturnedIds) = Cardinality(returned)
            /\ \A r \in returned :
                  /\ store[r[2]].status = "pending"
                  /\ store[r[2]].result_file = <<>>
                  /\ ~store[r[2]].processed
                  /\ store[r[2]].model_key = r[1]
                  /\ store[r[2]].provider = ProviderOf(r[1]))
    /\ [][run'.mode = "submit" =>
            /\ \A b \in DOMAIN store : b \in DOMAIN store' /\ store'[b] = store[b]
            /\ DOMAIN store' \ DOMAIN store = ReturnedIds' \ ReturnedIds]_vars

\* C27 witness: a dispatch over every configured model is done on a table
\* that held a processed record; the one batch it submitted has its pending
\* record, and the older record is as it was.
C27_Witness ==
    /\ run.mode = "submit" /\ run.end = "done" /\ run.list = ModelKeys
    /\ ReturnedIds = {MaxJobs}
    /\ DOMAIN store = BatchIds
    /\ store[1].processed /\ store[1].result_file /= <<>>
    /\ store[MaxJobs].status = "pending"

\* The provider tag has no branch in submit_batch and check_and_retrieve.
Unhandled(provider) == provider \notin BatchProviders

\* C28: submit_batch for a configured model with an unhandled provider
\* returns None, whatever the providers would answer; the iteration of the
\* dispatch for such a model leaves the store, the providers and the returned
\* identifiers as they were and goes on with the next model.  A stored record
\* with an unhandled provider tag is never changed, polled, downloaded for or
\* the cause of an exception; the iteration that visits it goes on with the
\* next job, and a pass in which nothing raised has polled every other job
\* that was pending.
C28_UnknownProviderNoOp ==
    /\ [](\A m \in ConfiguredModels : \A ok \in BOOLEAN :
            Unhandled(ProviderOf(m)) => submit_batch(m, ok) = "none")
    /\ [](\A r \in returned : ~Unhandled(ProviderOf(r[1])))
    /\ [][(pc = "submit" /\ todo /= <<>> /\ Head(todo) \in ConfiguredModels
             /\ Unhandled(ProviderOf(Head(todo)))) =>
            /\ UNCHANGED <<disk, remote, sent, issued, returned, accepted, run>>
            /\ pc' = "submit" /\ todo' = Tail(todo)]_vars
    /\ [](\A b \in DOMAIN store :
            Unhandled(store[b].provider) =>
                /\ store[b] = JobRecord(store[b].provider, store[b].model_key, b, b)
                /\ b \notin polled \cup raised \cup fetched
                /\ ~Exists(results[b]))
    /\ [][(pc = "check" /\ queue /= <<>> /\ Unhandled(jobs[Head(queue)].provider)) =>
            /\ pc' = "check" /\ queue' = Tail(queue) /\ jobs' = jobs
            /\ UNCHANGED <<disk, raised, run>>]_vars
    /\ [](\A b \in DOMAIN store :
            (PassOver /\ raised = {} /\ ~Unhandled(store[b].provider)
                /\ store[b].status = "pending") => b \in polled)

\* C28 witness: a check pass has ended normally on a table that holds an
\* ollama record and a job of a handled provider behind it; the pass
\* downloaded for the latter, and the ollama record is the one it found.
C28_Witness ==
    /\ run.mode = "check" /\ run.end = "done"
    /\ \E b, c \in DOMAIN store :
          /\ b < c
          /\ store[b].provider = "ollama" /\ store[b].status = "pending"
          /\ c \in fetched /\ store[c].status = "completed"

\* The record has no result_file, or the file it names is not on the disk.
MissingResult(job, b) == job.result_file = <<>> \/ ~Exists(results[b])

\* C29: the iteration of the normalizer for a completed, unprocessed job
\* whose result file is missing changes neither the table nor any output
\* file and goes on with the next job.  When the loop of a run has ended,
\* every completed job of the table is processed or is missing its result
\* file, also a job that an earlier run skipped; a processed job has its
\* output, and a job that is missing its file and has no output is still
\* completed and unprocessed, which is what the next run selects.
C29_MissingResultSkipped ==
    /\ [][(pc = "process" /\ queue /= <<>> /\ Selected(jobs[Head(queue)])
             /\ MissingResult(jobs[Head(queue)], Head(queue))) =>
            /\ jobs' = jobs /\ outputs' = outputs
            /\ queue' = Tail(queue) /\ pc' = "process"
            /\ UNCHANGED <<jobs_file, store, results, run>>]_vars
    /\ [](\A b \in DOMAIN jobs :
            (pc = "process" /\ queue = <<>> /\ jobs[b].status = "completed") =>
                (jobs[b].processed \/ MissingResult(jobs[b], b)))
    /\ [](\A b \in DOMAIN store :
            /\ store[b].processed =>
                  (Exists(OutputOf(b)) /\ ~MissingResult(store[b], b))
            /\ (MissingResult(store[b], b) /\ ~Exists(OutputOf(b))) =>
                  Selected(store[b]))

\* C29 witness: a run has ended normally; the first job, whose result file
\* is not on the disk, is unprocessed and has no output, and the job behind
\* it is processed and has its output.
C29_Witness ==
    /\ InvocationOver /\ run.end = "done"
    /\ \E b, c \in DOMAIN store :
          /\ b < c
          /\ store[b].result_file /= <<>> /\ ~Exists(results[b])
          /\ Selected(store[b]) /\ ~Exists(OutputOf(b))
          /\ store[c].processed /\ Exists(OutputOf(c))

\* C30: an invocation in check mode submits nothing, and when it is over
\* every job its pass downloaded without an error is completed in the store
\* and normalized: processed, with its output written.  An invocation in
\* submit mode polls and downloads nothing, never enters the poller or the
\* normalizer, and changes no record's status or processed flag.
C30_ModeOrdering ==
    /\ [](run.mode = "check" =>
            /\ attempted = {} /\ accepted = {} /\ returned = {}
            /\ pc \notin {"submit", "record"}
            /\ InvocationOver =>
                  \A b \in fetched \ raised :
                      /\ store[b].status = "completed"
                      /\ store[b].processed
                      /\ Exists(OutputOf(b)))
    /\ [](run.mode = "submit" =>
            /\ polled = {} /\ fetched = {}
            /\ pc \notin {"check", "process"})
    /\ [][run'.mode = "submit" =>
            \A b \in DOMAIN store :
                /\ store'[b].status = store[b].status
                /\ store'[b].processed = store[b].processed]_vars

\* The keys of a canonical result record.
CanonicalFields ==
    {"id", "query", "model", "generated_sparql", "ground_truth_sparql",
     "generated_count", "ground_truth_count", "is_match", "execution_error",
     "raw_llm_response"}

\* The payloads that carry the given id.
PayloadsOf(id) ==
    {generate_prompt_payloads[i] : i \in
        {k \in 1..Len(generate_prompt_payloads) : generate_prompt_payloads[k].id = id}}

\* C31: the output file of a job holds one record per result line the
\* normalizer matched, in file order; the record has the line's correlation
\* id as its id, the job's model_key as its model, the query and the ground
\* truth of the payload with that id, and the same ten fields whatever the
\* provider of the job.
C31_CanonicalRecord ==
    \A b \in DOMAIN store :
        Exists(OutputOf(b)) =>
            LET records == Content(OutputOf(b)) IN
            /\ Len(records) = Len(MatchedLines(b))
            /\ \A i \in 1..Len(records) :
                  /\ DOMAIN records[i] = CanonicalFields
                  /\ records[i].model = store[b].model_key
                  /\ i <= Len(MatchedLines(b)) =>
                        records[i].id = CorrelationId(MatchedLines(b)[i])
                  /\ PayloadsOf(records[i].id) /= {}
                  /\ \A p \in PayloadsOf(records[i].id) :
                        /\ records[i].query = p.user_query
                        /\ records[i].ground_truth_sparql = p.ground_truth

\* C31 witness: the output of an Anthropic job holds two records, for the
\* payloads 2 and 1 in the order of the result file, the second made from a
\* line whose body had not the expected shape.
C31_Witness ==
    \E b \in DOMAIN store :
        /\ store[b].provider = "anthropic" /\ store[b].processed
        /\ Exists(OutputOf(b))
        /\ Len(Content(OutputOf(b))) = 2
        /\ Content(OutputOf(b))[1].id = "2"
        /\ Content(OutputOf(b))[1].query = "q2"
        /\ Content(OutputOf(b))[2].id = "1"
        /\ Content(OutputOf(b))[2].raw_llm_response = ExtractionError

====
